---------------------------- MODULE Spec2Model ----------------------------
(***************************************************************************)
(* oxterm: the streaming conversion loop of src/main.rs,                   *)
(* serial_to_writer and its closure `copy`.                                *)
(*                                                                         *)
(* One step of the model is one iteration of `loop { match copy() ... }`:  *)
(* the read, the conversion arm, out.write_all, the once-a-second report   *)
(* and, on Err, serial_read_error.                                         *)
(*                                                                         *)
(* Bytes are integers 0..255, texts are sequences of ASCII codes.  Time is *)
(* counted in ticks, TicksPerSec ticks to the second.  32-bit values are   *)
(* kept as two 16-bit limbs [hi, lo] so that no intermediate value leaves  *)
(* the range of TLC's 32-bit integers.                                     *)
(***************************************************************************)
EXTENDS Integers, Sequences, FiniteSets, TLC

VARIABLES
    convertfrom,   \* args.convertfrom, fixed for the run
    capacity,      \* args.capacity, fixed for the run
    buf,           \* the Vec<u8> behind `buf`: its len() elements
    count_words,
    count_commas,
    count_bytes,
    count_lines,
    stamp,         \* Instant of the start of the current window, in ticks
    clock,         \* what Instant::now() returns, in ticks
    pending,       \* bytes the port holds that no read has taken yet
    src_rate,      \* bytes the device delivers per tick, fixed for the run
    sink,          \* every byte out.write_all has accepted, in order
    out_len,       \* bytes sitting in the BufWriter's own buffer
    stdout,        \* the report lines printed so far
    stderr,        \* number of diagnostics serial_read_error has printed
    running,       \* the loop has not been left
    last           \* what the latest iteration did

vars == <<convertfrom, capacity, buf, count_words, count_commas, count_bytes,
          count_lines, stamp, clock, pending, src_rate, sink, out_len,
          stdout, stderr, running, last>>

---------------------------------------------------------------------------
(* Bounds of the model *)

TicksPerSec == 2
MaxClock == 6
MaxStep == 3
MaxDiag == 2
MaxCapacity == 2
MaxRate == 1
MaxSink == 6
MaxLen == 6
MaxRead == 3

ConvertFrom == {"NON", "HEX", "BIN", "INT", "UINT", "USHR", "SHR", "FLT"}

\* The byte values reads deliver: NUL, 1, '\n', ' ', ',', 0x80, 0xFF
ByteVals == {0, 1, 10, 32, 44, 128, 255}

Min(a, b) == IF a < b THEN a ELSE b

RECURSIVE Gcd(_, _)
Gcd(a, b) == IF b = 0 THEN a ELSE Gcd(b, a % b)

RECURSIVE Flatten(_)
Flatten(ss) == IF ss = <<>> THEN <<>> ELSE Head(ss) \o Flatten(Tail(ss))

---------------------------------------------------------------------------
(* Formatting, as core::fmt does it: digits are produced from the least    *)
(* significant end by repeated division and come out most significant      *)
(* first, with no padding.                                                 *)

DigitChar(d) == IF d < 10 THEN 48 + d ELSE 97 + (d - 10)

RECURSIVE FmtRadix(_, _)
FmtRadix(x, base) ==
    IF x < base THEN <<DigitChar(x)>>
    ELSE FmtRadix(x \div base, base) \o <<DigitChar(x % base)>>

\* two hexadecimal digits whatever the value, as "{:02x}" would print
FmtLowerHex_Padded(byte) == <<DigitChar(byte \div 16), DigitChar(byte % 16)>>

\* write!(out, "{:x}", byte)
FmtLowerHex(byte) == FmtRadix(byte, 16)

\* write!(out, "{:b}", byte)
FmtBinary(byte) == FmtRadix(byte, 2)

\* the decimal digits of the unsigned value hi * 65536 + lo
RECURSIVE FmtLimbs(_, _)
FmtLimbs(hi, lo) ==
    IF hi = 0 /\ lo < 10 THEN <<48 + lo>>
    ELSE LET t == (hi % 10) * 65536 + lo
         IN  FmtLimbs(hi \div 10, t \div 10) \o <<48 + (t % 10)>>

\* the 4 bytes taken most significant first, as from_be_bytes would
FromLeBytes4_BigEndian(bytes) ==
    [hi |-> bytes[1] * 256 + bytes[2], lo |-> bytes[3] * 256 + bytes[4]]

\* u32::from_le_bytes / i32::from_le_bytes: the bit pattern of the 4 bytes
FromLeBytes4(bytes) ==
    [hi |-> bytes[4] * 256 + bytes[3], lo |-> bytes[2] * 256 + bytes[1]]

\* the 2 bytes taken most significant first, as from_be_bytes would
FromLeBytes2_BigEndian(bytes) == bytes[1] * 256 + bytes[2]

\* u16::from_le_bytes / i16::from_le_bytes: the bit pattern of the 2 bytes
FromLeBytes2(bytes) == bytes[2] * 256 + bytes[1]

\* write!(out, "{}", u32)
FmtU32(v) == FmtLimbs(v.hi, v.lo)

\* write!(out, "{}", i32): two's complement, '-' and the magnitude
FmtI32(v) ==
    IF v.hi < 32768 THEN FmtLimbs(v.hi, v.lo)
    ELSE LET mlo == (65536 - v.lo) % 65536
             mhi == (65535 - v.hi + (IF v.lo = 0 THEN 1 ELSE 0)) % 65536
         IN  <<45>> \o FmtLimbs(mhi, mlo)

\* write!(out, "{}", u16)
FmtU16(v) == FmtLimbs(0, v)

\* write!(out, "{}", i16)
FmtI16(v) == IF v < 32768 THEN FmtLimbs(0, v) ELSE <<45>> \o FmtLimbs(0, 65536 - v)

\* write!(out, "{}", f32): the decimal text of an f32 is not computed here;
\* it is stood for by the marker 256 followed by the four bytes it renders.
FmtF32(bytes) == <<256>> \o bytes

\* buf.array_chunks::<N>(): the complete N-element chunks, in order
ArrayChunks(b, N) ==
    [i \in 1..(Len(b) \div N) |-> SubSeq(b, (i - 1) * N + 1, i * N)]


---------------------------------------------------------------------------
(* The read buffer and the port *)

\* a buffer of `cap` zero bytes, as vec![0; args.capacity] would make
NewReadBuf_Zeroed(cap) == [i \in 1..cap |-> 0]

\* let mut buf = Vec::with_capacity(args.capacity): room for `cap` bytes is
\* reserved, the vector itself holds no element (len() = 0).  port.read(buf)
\* and out.write_all(&buf) see the slice of its len() elements.
NewReadBuf(cap) == <<>>

\* port.read(buf) returning Ok(n): the first n elements of the slice are
\* overwritten with the bytes received, the rest keep what they held.
ReadInto(b, n, data) ==
    [i \in 1..Len(b) |-> IF i <= n THEN data[i] ELSE b[i]]

\* the match without its TimedOut arm: every error returns
MatchRead_NoTimedOutArm(kind) == IF kind = "Ok" THEN "convert" ELSE "return"

\* the match with every error swallowed like TimedOut
MatchRead_SwallowsErrors(kind) == IF kind = "Ok" THEN "convert" ELSE "skip"

\* The arms of `match port.read(buf)`: Ok(n) runs the conversion, TimedOut
\* is swallowed and falls through to the write, any other error returns.
MatchRead(kind) ==
    CASE kind = "Ok" -> "convert"
      [] kind = "TimedOut" -> "skip"
      [] OTHER -> "return"

---------------------------------------------------------------------------
(* The conversion arms of `match args.convertfrom` *)

\* buf.iter().fold((count_words, count_commas, count_lines), ...)
RECURSIVE FoldCounts(_, _)
FoldCounts(b, acc) ==
    IF b = <<>> THEN acc
    ELSE LET x == Head(b)
             nxt == CASE x = 32 -> [acc EXCEPT !.w = @ + 1]
                      [] x = 10 -> [acc EXCEPT !.l = @ + 1]
                      [] x = 44 -> [acc EXCEPT !.c = @ + 1]
                      [] OTHER  -> acc
         IN  FoldCounts(Tail(b), nxt)

IntOfChunk4(bytes) == FmtI32(FromLeBytes4(bytes))
UIntOfChunk4(bytes) == FmtU32(FromLeBytes4(bytes))
ShrOfChunk2(bytes) == FmtI16(FromLeBytes2(bytes))
UShrOfChunk2(bytes) == FmtU16(FromLeBytes2(bytes))

\* The vector `out` an arm other than NON builds from the whole of buf
Convert(mode, b) ==
    LET c4 == ArrayChunks(b, 4)
        c2 == ArrayChunks(b, 2)
    IN  CASE mode = "HEX"  ->
               Flatten([i \in 1..Len(b) |-> FmtLowerHex(b[i])])
          [] mode = "BIN"  ->
               Flatten([i \in 1..Len(b) |-> FmtBinary(b[i])])
          [] mode = "INT"  ->
               Flatten([i \in 1..Len(c4) |-> IntOfChunk4(c4[i])])
          [] mode = "SHR"  ->
               Flatten([i \in 1..Len(c2) |-> ShrOfChunk2(c2[i])])
          [] mode = "FLT"  ->
               Flatten([i \in 1..Len(c4) |-> FmtF32(c4[i])])
          [] mode = "UINT" ->
               Flatten([i \in 1..Len(c4) |-> UIntOfChunk4(c4[i])])
          [] mode = "USHR" ->
               Flatten([i \in 1..Len(c2) |-> UShrOfChunk2(c2[i])])
          [] OTHER -> b

\* the Ok(n) arm with the byte counter raised by the length of what the arm
\* leaves in buf
OkArm_CountsDisplay(mode, b, n, cw, cc, cb, cl) ==
    IF mode = "NON"
    THEN LET f == FoldCounts(b, [w |-> cw, c |-> cc, l |-> cl])
         IN  [buf |-> b, words |-> f.w, commas |-> f.c, bytes |-> cb + n,
              lines |-> f.l]
    ELSE [buf |-> Convert(mode, b), words |-> cw, commas |-> cc,
          bytes |-> cb + Len(Convert(mode, b)), lines |-> cl]

\* The Ok(n) arm: count_bytes += n, then the arm of the mode.  NON folds the
\* counters over buf and leaves buf alone; every other arm ends `*buf = out`.
OkArm(mode, b, n, cw, cc, cb, cl) ==
    IF mode = "NON"
    THEN LET f == FoldCounts(b, [w |-> cw, c |-> cc, l |-> cl])
         IN  [buf |-> b, words |-> f.w, commas |-> f.c, bytes |-> cb + n,
              lines |-> f.l]
    ELSE [buf |-> Convert(mode, b), words |-> cw, commas |-> cc,
          bytes |-> cb + n, lines |-> cl]

---------------------------------------------------------------------------
(* out.write_all(&buf) on the BufWriter of capacity `cap` holding `olen`    *)
(* bytes: data that fits is buffered; otherwise the buffer is flushed and   *)
(* data of at least `cap` bytes goes straight to the writer underneath.     *)
(* Only a call that reaches the writer underneath with bytes can fail.      *)

WriteOutcomes(b, cap, olen) ==
    LET needFlush == olen + Len(b) > cap
        direct == Len(b) >= cap
        kept == IF needFlush THEN 0 ELSE olen
        okay == {[ok |-> TRUE, appended |-> b,
                  out_len |-> IF direct THEN 0 ELSE kept + Len(b)]}
        flushFails == IF needFlush /\ olen > 0
                      THEN {[ok |-> FALSE, appended |-> <<>>, out_len |-> olen]}
                      ELSE {}
        writeFails == IF direct /\ Len(b) > 0
                      THEN {[ok |-> FALSE, appended |-> SubSeq(b, 1, k),
                             out_len |-> kept] : k \in 0..(Len(b) - 1)}
                      ELSE {}
    IN  okay \cup flushFails \cup writeFails

---------------------------------------------------------------------------
(* The report *)

\* count as f64 / time.as_secs_f64(), as the reduced fraction <<num, den>>
Rate(count, time) ==
    LET num == count * TicksPerSec
        g == Gcd(num, time)
    IN  <<num \div g, time \div g>>

\* seconds rounded up instead of down
AsSecs_RoundsUp(time) == (time + TicksPerSec - 1) \div TicksPerSec

\* time.as_secs(): whole seconds
AsSecs(time) == time \div TicksPerSec

\* the report without `stamp = now`
Report_KeepsStamp(cw, cc, cb, cl, st, now) ==
    LET time == now - st
    IN  IF AsSecs(time) >= 1
        THEN [fired |-> TRUE,
              line |-> <<Rate(0, time), Rate(0, time), Rate(0, time),
                         Rate(0, time)>>,
              words |-> 0, commas |-> 0, bytes |-> 0, lines |-> 0,
              stamp |-> st]
        ELSE [fired |-> FALSE, line |-> <<>>,
              words |-> cw, commas |-> cc, bytes |-> cb, lines |-> cl,
              stamp |-> st]

\* Lines 382-397.  The four counters are set to 0 first and the line is
\* printed from the counters afterwards.
Report(cw, cc, cb, cl, st, now) ==
    LET time == now - st
    IN  IF AsSecs(time) >= 1
        THEN LET w0 == 0
                 c0 == 0
                 b0 == 0
                 l0 == 0
             IN  [fired |-> TRUE,
                  line |-> <<Rate(w0, time), Rate(c0, time), Rate(b0, time),
                             Rate(l0, time)>>,
                  words |-> w0, commas |-> c0, bytes |-> b0, lines |-> l0,
                  stamp |-> now]
        ELSE [fired |-> FALSE, line |-> <<>>,
              words |-> cw, commas |-> cc, bytes |-> cb, lines |-> cl,
              stamp |-> st]

---------------------------------------------------------------------------
(* One iteration of the loop: copy() and the match on its result *)

\* an error arm that prints and leaves the process, as exit(1) would
OnCopyErr_Exits(diag) == [stderr |-> diag + 1, running |-> FALSE]

\* Err(e) => serial_read_error(e): eprintln!("{:?}", e) and return; the loop
\* has no break, so the next iteration follows.
OnCopyErr(diag) == [stderr |-> diag + 1, running |-> TRUE]

Copy(kind, n, data, d) ==
    LET now == clock + d
        avail == pending + src_rate * d
        path == MatchRead(kind)
        rbuf == IF kind = "Ok" THEN ReadInto(buf, n, data) ELSE buf
        arm == IF path = "convert"
               THEN OkArm(convertfrom, rbuf, n, count_words, count_commas,
                          count_bytes, count_lines)
               ELSE [buf |-> rbuf, words |-> count_words,
                     commas |-> count_commas, bytes |-> count_bytes,
                     lines |-> count_lines]
    IN  /\ running
        /\ now <= MaxClock
        /\ n <= Min(Len(buf), avail)
        /\ clock' = now
        /\ pending' = avail - n
        /\ UNCHANGED <<convertfrom, capacity, src_rate>>
        /\ IF path = "return"
           THEN \* Err(e) => return Err(e); the loop calls serial_read_error
                /\ stderr < MaxDiag
                /\ buf' = rbuf
                /\ UNCHANGED <<count_words, count_commas, count_bytes,
                               count_lines, stamp, sink, out_len, stdout>>
                /\ stderr' = OnCopyErr(stderr).stderr
                /\ running' = OnCopyErr(stderr).running
                /\ last' = [kind |-> kind, n |-> n, data |-> data,
                            ret |-> "ReadErr", reported |-> FALSE]
           ELSE /\ Len(sink) + Len(arm.buf) <= MaxSink
                /\ buf' = arm.buf
                /\ \E w \in WriteOutcomes(arm.buf, capacity, out_len) :
                     /\ sink' = sink \o w.appended
                     /\ out_len' = w.out_len
                     /\ IF w.ok
                        THEN LET r == Report(arm.words, arm.commas,
                                             arm.bytes, arm.lines, stamp, now)
                             IN  /\ count_words' = r.words
                                 /\ count_commas' = r.commas
                                 /\ count_bytes' = r.bytes
                                 /\ count_lines' = r.lines
                                 /\ stamp' = r.stamp
                                 /\ stdout' = IF r.fired
                                              THEN Append(stdout, r.line)
                                              ELSE stdout
                                 /\ UNCHANGED <<stderr, running>>
                                 /\ last' = [kind |-> kind, n |-> n,
                                             data |-> data, ret |-> "Ok",
                                             reported |-> r.fired]
                        ELSE \* write_all(..)? returns the error
                             /\ stderr < MaxDiag
                             /\ count_words' = arm.words
                             /\ count_commas' = arm.commas
                             /\ count_bytes' = arm.bytes
                             /\ count_lines' = arm.lines
                             /\ UNCHANGED <<stamp, stdout>>
                             /\ stderr' = OnCopyErr(stderr).stderr
                             /\ running' = OnCopyErr(stderr).running
                             /\ last' = [kind |-> kind, n |-> n,
                                         data |-> data, ret |-> "WriteErr",
                                         reported |-> FALSE]

\* `last` before the first iteration
NoIteration ==
    [kind |-> "none", n |-> 0, data |-> <<>>, ret |-> "none",
     reported |-> FALSE]

ReadOk ==
    \E d \in 0..MaxStep : \E n \in 0..Len(buf) :
        \E data \in [1..n -> ByteVals] : Copy("Ok", n, data, d)

ReadTimedOut == \E d \in 0..MaxStep : Copy("TimedOut", 0, <<>>, d)

ReadError == \E d \in 0..MaxStep : Copy("Other", 0, <<>>, d)

Init ==
    /\ convertfrom \in ConvertFrom
    /\ capacity \in 0..MaxCapacity
    /\ buf = NewReadBuf(capacity)
    /\ count_words = 0
    /\ count_commas = 0
    /\ count_bytes = 0
    /\ count_lines = 0
    /\ clock = 0
    /\ stamp = clock
    /\ pending = 0
    /\ src_rate \in 0..MaxRate
    /\ sink = <<>>
    /\ out_len = 0
    /\ stdout = <<>>
    /\ stderr = 0
    /\ running = TRUE
    /\ last = NoIteration

Next == ReadOk \/ ReadTimedOut \/ ReadError

Spec == Init /\ [][Next]_vars

---------------------------------------------------------------------------
(* The conversion block and the report block as functions of their inputs:  *)
(* the inputs are drawn from bounded sets and the block is applied once.    *)
(* The loop above never hands these blocks anything but an empty buffer and *)
(* zero counters, so what they compute is checked here.                     *)

\* byte values of the drawn inputs: 0x00, 0x01, 0x80, 0xFF
FnBytes == {0, 1, 128, 255}

\* 4-byte groups of 0x00 and 0xFF, for inputs of two groups
FnWords == [1..4 -> {0, 255}]

\* byte values around the one-digit / two-digit border of hexadecimal:
\* 0x09, 0x0A, 0x0F, 0x10, 0xFF
FnHexBytes == {9, 10, 15, 16, 255}

\* every input of up to MaxLen bytes, two groups with or without a
\* trailing byte, and up to three bytes around the hexadecimal border
FnInputs ==
    UNION {[1..k -> FnBytes] : k \in 0..MaxLen}
    \cup {a \o b \o c : a \in FnWords, b \in FnWords, c \in {<<>>, <<1>>}}
    \cup UNION {[1..k -> FnHexBytes] : k \in 1..3}

FnCounts == {0, 2, 5, 10, 100}

InitFn ==
    /\ convertfrom \in ConvertFrom
    /\ capacity = 0
    /\ pending = 0
    /\ src_rate = 0
    /\ sink = <<>>
    /\ out_len = 0
    /\ stdout = <<>>
    /\ stderr = 0
    /\ running = TRUE
    /\ stamp = 0
    /\ last = NoIteration
    /\ \/ /\ buf \in FnInputs
          /\ count_words = 0
          /\ count_commas = 0
          /\ count_bytes = 0
          /\ count_lines = 0
          /\ clock = 0
       \/ /\ buf = <<>>
          /\ count_words \in FnCounts
          /\ count_commas \in FnCounts
          /\ count_bytes \in FnCounts
          /\ count_lines \in FnCounts
          /\ clock \in 0..MaxClock

\* Lines 307-375 on a buffer a read has just filled, then line 380
ApplyConvert ==
    LET arm == OkArm(convertfrom, buf, Len(buf), count_words, count_commas,
                     count_bytes, count_lines)
    IN  /\ last.kind = "none"
        /\ buf' = arm.buf
        /\ count_words' = arm.words
        /\ count_commas' = arm.commas
        /\ count_bytes' = arm.bytes
        /\ count_lines' = arm.lines
        /\ sink' = sink \o buf'
        /\ last' = [kind |-> "convert", n |-> Len(buf), data |-> buf,
                    ret |-> "Ok", reported |-> FALSE]
        /\ UNCHANGED <<convertfrom, capacity, stamp, clock, pending,
                       src_rate, out_len, stdout, stderr, running>>

\* Lines 382-397 on the counters and the elapsed time drawn
ApplyReport ==
    LET r == Report(count_words, count_commas, count_bytes, count_lines,
                    stamp, clock)
    IN  /\ last.kind = "none"
        /\ count_words' = r.words
        /\ count_commas' = r.commas
        /\ count_bytes' = r.bytes
        /\ count_lines' = r.lines
        /\ stamp' = r.stamp
        /\ stdout' = IF r.fired THEN Append(stdout, r.line) ELSE stdout
        /\ last' = [kind |-> "report", n |-> 0, data |-> <<>>,
                    ret |-> "Ok", reported |-> r.fired]
        /\ UNCHANGED <<convertfrom, capacity, buf, clock, pending, src_rate,
                       sink, out_len, stderr, running>>

\* Line 380 on a buffer of up to MaxRead bytes, then the loop's match on what
\* copy returned (lines 402-417); the loop comes round again for as long as
\* it runs.
ApplyWrite ==
    /\ running
    /\ last.kind \in {"none", "write"}
    /\ Len(buf) <= MaxRead
    /\ Len(sink) + Len(buf) <= MaxSink
    /\ \E w \in WriteOutcomes(buf, capacity, out_len) :
         /\ sink' = sink \o w.appended
         /\ out_len' = w.out_len
         /\ IF w.ok
            THEN /\ UNCHANGED <<stderr, running>>
                 /\ last' = [kind |-> "write", n |-> Len(buf), data |-> buf,
                             ret |-> "Ok", reported |-> FALSE]
            ELSE /\ stderr < MaxDiag
                 /\ stderr' = OnCopyErr(stderr).stderr
                 /\ running' = OnCopyErr(stderr).running
                 /\ last' = [kind |-> "write", n |-> Len(buf), data |-> buf,
                             ret |-> "WriteErr", reported |-> FALSE]
    /\ UNCHANGED <<convertfrom, capacity, buf, count_words, count_commas,
                   count_bytes, count_lines, stamp, clock, pending, src_rate,
                   stdout>>

\* what a read of n bytes delivers: n times a NUL or n times a space
FnData(n) == {[i \in 1..n |-> v] : v \in {0, 32}}

\* Lines 306-380 on a buffer of up to MaxRead bytes that holds the bytes
\* drawn when port.read returns Ok(n) for an n up to the length of the buffer
ApplyRead ==
    /\ last.kind = "none"
    /\ Len(buf) <= MaxRead
    /\ \E n \in 0..Len(buf) : \E data \in FnData(n) :
        LET rbuf == ReadInto(buf, n, data)
            arm == OkArm(convertfrom, rbuf, n, count_words, count_commas,
                         count_bytes, count_lines)
        IN  /\ buf' = arm.buf
            /\ count_words' = arm.words
            /\ count_commas' = arm.commas
            /\ count_bytes' = arm.bytes
            /\ count_lines' = arm.lines
            /\ sink' = sink \o buf'
            /\ last' = [kind |-> "read", n |-> n, data |-> data,
                        ret |-> "Ok", reported |-> FALSE]
            /\ UNCHANGED <<convertfrom, capacity, stamp, clock, pending,
                           src_rate, out_len, stdout, stderr, running>>

NextFn == ApplyConvert \/ ApplyReport \/ ApplyWrite \/ ApplyRead

SpecFn == InitFn /\ [][NextFn]_vars

---------------------------------------------------------------------------
(* Vocabulary of the properties *)

\* number of elements of b equal to ch
CountOf(b, ch) == Cardinality({i \in 1..Len(b) : b[i] = ch})

\* the time the iteration's report check sees since the window began
ElapsedAtCheck == clock' - stamp

\* the fraction <<num, den>> equals count per second over `ticks` ticks
IsRateOf(frac, count, ticks) ==
    /\ frac[2] > 0
    /\ frac[1] * ticks = count * TicksPerSec * frac[2]

AllCountersZero ==
    /\ count_words = 0
    /\ count_commas = 0
    /\ count_bytes = 0
    /\ count_lines = 0

IsDigit(c) == c >= 48 /\ c <= 57

\* a decimal numeral without sign and without a superfluous leading zero
Canonical(text) ==
    /\ Len(text) >= 1
    /\ \A i \in 1..Len(text) : IsDigit(text[i])
    /\ Len(text) = 1 \/ text[1] # 48

\* the value of a numeral, as limbs; hi beyond 16 bits means "too large"
RECURSIVE ParseLimbs(_, _)
ParseLimbs(text, acc) ==
    IF text = <<>> \/ acc.hi > 65535 THEN acc
    ELSE LET t == acc.lo * 10 + (Head(text) - 48)
         IN  ParseLimbs(Tail(text),
                        [hi |-> acc.hi * 10 + (t \div 65536),
                         lo |-> t % 65536])

ValueOf(text) == ParseLimbs(text, [hi |-> 0, lo |-> 0])

\* the bit pattern of a little-endian group of 2 or 4 bytes: byte j has
\* weight 256^(j-1)
Bits(group) ==
    IF Len(group) = 2
    THEN [hi |-> 0, lo |-> group[1] + 256 * group[2]]
    ELSE [hi |-> group[3] + 256 * group[4], lo |-> group[1] + 256 * group[2]]

\* text is the decimal rendering of the group read as an unsigned value
RendersUnsigned(text, group) ==
    Canonical(text) /\ ValueOf(text) = Bits(group)

\* text is the decimal rendering of the group read in two's complement:
\* a negative value is '-' and a magnitude m with m + bits = 2^width
RendersSigned(text, group) ==
    LET v == Bits(group)
        top == group[Len(group)]
    IN  IF top < 128 THEN RendersUnsigned(text, group)
        ELSE /\ Len(text) >= 2
             /\ text[1] = 45
             /\ Canonical(Tail(text))
             /\ LET m == ValueOf(Tail(text))
                    carry == IF m.lo + v.lo >= 65536 THEN 1 ELSE 0
                IN  /\ (m.lo + v.lo) % 65536 = 0
                    /\ IF Len(group) = 2
                       THEN m.hi = 0 /\ carry = 1
                       ELSE m.hi + v.hi + carry = 65536

\* the non-overlapping groups of N bytes of b, the remainder left out
Groups(b, N) ==
    [i \in 1..(Len(b) \div N) |-> [j \in 1..N |-> b[N * (i - 1) + j]]]

\* text is the renderings of the groups, in order, with nothing between
RECURSIVE Concatenates(_, _, _)
Concatenates(text, groups, signed) ==
    IF groups = <<>> THEN text = <<>>
    ELSE \E k \in 1..Len(text) :
            /\ IF signed THEN RendersSigned(SubSeq(text, 1, k), Head(groups))
                         ELSE RendersUnsigned(SubSeq(text, 1, k), Head(groups))
            /\ Concatenates(SubSeq(text, k + 1, Len(text)), Tail(groups),
                            signed)

Converted(modes) == last.kind = "convert" /\ convertfrom \in modes

---------------------------------------------------------------------------
(* Properties *)

\* C1: an iteration whose read returns TimedOut appends nothing to the sink:
\* the sink after the iteration is the sink before it.
C1_TimedOutAppendsNothing ==
    [][last'.kind = "TimedOut" => sink' = sink]_vars

C1_Witness ==
    /\ last.kind = "TimedOut"
    /\ last.ret = "Ok"
    /\ clock > 0

C3_RawWritesAndCountsBytesRead ==
    [][convertfrom = "NON" /\ last'.kind = "Ok" =>
         LET b == last'.data
         IN  /\ sink' = sink \o b
             /\ IF last'.reported
                THEN AllCountersZero'
                ELSE /\ count_words' = count_words + CountOf(b, 32)
                     /\ count_commas' = count_commas + CountOf(b, 44)
                     /\ count_lines' = count_lines + CountOf(b, 10)]_vars

C3_Witness ==
    /\ convertfrom = "NON"
    /\ last.kind = "Ok"
    /\ last.ret = "Ok"
    /\ capacity > 0

\* C4: an iteration whose read fails with an error other than TimedOut
\* appends nothing to the sink and emits one diagnostic.
C4_FatalReadErrorSkipsWrite ==
    [][last'.kind = "Other" => sink' = sink /\ stderr' = stderr + 1]_vars

C4_Witness ==
    /\ last.kind = "Other"
    /\ last.ret = "ReadErr"
    /\ stderr = 1

\* C5: right after every report the four counters are 0 and the window
\* timestamp is now; a step that emits no report decreases no counter.
C5_ResetExactlyOnReport ==
    [][IF Len(stdout') = Len(stdout) + 1
       THEN AllCountersZero' /\ stamp' = clock'
       ELSE /\ count_words' >= count_words
            /\ count_commas' >= count_commas
            /\ count_bytes' >= count_bytes
            /\ count_lines' >= count_lines]_vars

C5_Witness ==
    /\ last.reported
    /\ Len(stdout) >= 1
    /\ stamp = clock
    /\ stamp >= TicksPerSec
    /\ AllCountersZero

\* C6: at the end of every iteration, whatever its outcome, less than one
\* second has passed since the window timestamp.
C6_WindowUnderOneSecond == clock - stamp < TicksPerSec

\* C7: an iteration whose read returns TimedOut changes no counter in its
\* read and conversion steps and still makes the report check: with at
\* least one second elapsed the report fires, otherwise nothing changes.
C7_TimedOutStillChecksReport ==
    [][last'.kind = "TimedOut" =>
         IF ElapsedAtCheck >= TicksPerSec
         THEN /\ Len(stdout') = Len(stdout) + 1
              /\ stamp' = clock'
              /\ AllCountersZero'
         ELSE /\ stdout' = stdout
              /\ stamp' = stamp
              /\ count_words' = count_words
              /\ count_commas' = count_commas
              /\ count_bytes' = count_bytes
              /\ count_lines' = count_lines]_vars

C7_Witness ==
    /\ last.kind = "TimedOut"
    /\ last.reported
    /\ Len(stdout) >= 1

\* C8: with a source delivering a constant R bytes per second, a report is
\* printed for every window and each shows the byte rate R.
C8_ReportsShowSourceRate ==
    \A k \in 1..Len(stdout) : stdout[k][3] = <<src_rate * TicksPerSec, 1>>

\* C9: in INT and UINT modes an input of length L gives floor(L/4) values,
\* each the decimal rendering of the signed (unsigned) little-endian value
\* of its 4-byte group, with nothing between them; the L mod 4 trailing
\* bytes are dropped and the buffer kept for the next iteration holds only
\* the text.
C9_Int32Decoding ==
    /\ Converted({"INT"}) =>
          /\ Concatenates(sink, Groups(last.data, 4), TRUE)
          /\ buf = sink
    /\ Converted({"UINT"}) =>
          /\ Concatenates(sink, Groups(last.data, 4), FALSE)
          /\ buf = sink

C9_Witness ==
    /\ Converted({"INT"})
    /\ last.data = <<255, 255, 255, 255, 1, 0>>
    /\ sink = <<45, 49>>

\* C10: in SHR and USHR modes the input is taken in non-overlapping 2-byte
\* little-endian groups, each rendered as its signed (unsigned) decimal
\* value with nothing between them, an odd trailing byte dropped; USHR of
\* [0x01, 0x00] is "1".
C10_Int16Decoding ==
    /\ Converted({"SHR"}) => Concatenates(sink, Groups(last.data, 2), TRUE)
    /\ Converted({"USHR"}) =>
          /\ Concatenates(sink, Groups(last.data, 2), FALSE)
          /\ last.data = <<1, 0>> => sink = <<49>>

C10_Witness ==
    /\ Converted({"USHR"})
    /\ last.data = <<1, 0, 255, 255, 128>>
    /\ sink = <<49, 54, 53, 53, 51, 53>>

\* the lowercase hexadecimal digits, by value
HexChars == <<48, 49, 50, 51, 52, 53, 54, 55, 56, 57, 97, 98, 99, 100, 101, 102>>

\* text is the bytes in order, each as one digit below 0x10 and as two
\* digits otherwise, with nothing between
RECURSIVE HexOf(_, _)
HexOf(text, bytes) ==
    IF bytes = <<>> THEN text = <<>>
    ELSE LET x == Head(bytes)
             k == IF x < 16 THEN 1 ELSE 2
         IN  /\ Len(text) >= k
             /\ IF x < 16
                THEN text[1] = HexChars[x + 1]
                ELSE /\ text[1] = HexChars[(x \div 16) + 1]
                     /\ text[2] = HexChars[(x % 16) + 1]
             /\ HexOf(SubSeq(text, k + 1, Len(text)), Tail(bytes))

\* C11: in HEX mode every input byte is rendered as its lowercase
\* hexadecimal digits without padding (one digit below 0x10, two otherwise),
\* in input order with nothing between; [0x0A, 0xFF] gives "aff" and an
\* input of L bytes gives between L and 2L characters.
C11_HexNoPadding ==
    Converted({"HEX"}) =>
        /\ HexOf(sink, last.data)
        /\ Len(sink) >= Len(last.data)
        /\ Len(sink) <= 2 * Len(last.data)
        /\ last.data = <<10, 255>> => sink = <<97, 102, 102>>

C11_Witness ==
    /\ Converted({"HEX"})
    /\ last.data = <<10, 255>>
    /\ sink = <<97, 102, 102>>

CountersUnchanged ==
    UNCHANGED <<count_words, count_commas, count_bytes, count_lines>>

\* C14: an iteration whose read succeeds with 0 bytes, whatever the mode,
\* appends nothing to the sink and changes none of the four counters.
C14_EmptyReadChangesNothing ==
    [][last'.kind = "Ok" /\ last'.n = 0 =>
         sink' = sink /\ CountersUnchanged]_vars

C14_Witness ==
    /\ last.kind = "Ok"
    /\ last.n = 0
    /\ last.ret = "Ok"
    /\ last.reported
    /\ convertfrom = "HEX"
    /\ capacity > 0

\* C15: the loop never stops: every iteration leaves it running, and an
\* iteration whose read fails with a fatal error emits its diagnostic and
\* leaves the loop running as well, so a source that fails on every read
\* gets a diagnostic per iteration.
C15_LoopNeverStops ==
    [][running' /\ (last'.ret = "ReadErr" => stderr' = stderr + 1)]_vars

C15_Witness ==
    /\ running
    /\ last.ret = "ReadErr"
    /\ stderr >= 2
    /\ clock = 0
    /\ sink = <<>>

\* C16: at every read the buffer handed to the byte source has as many
\* bytes as the configured capacity, in every mode and after any number of
\* iterations.
C16_ReadBufHasCapacity == Len(buf) = capacity

\* C17: the report check emits a line if and only if at least one second has
\* passed since the window timestamp; when less has passed it changes neither
\* the counters nor the window timestamp and emits nothing.
C17_ReportIffOneSecond ==
    [][last'.kind = "report" =>
         IF clock - stamp >= TicksPerSec
         THEN Len(stdout') = Len(stdout) + 1
         ELSE /\ stdout' = stdout
              /\ stamp' = stamp
              /\ CountersUnchanged]_vars

C17_Witness ==
    /\ last.kind = "report"
    /\ ~last.reported
    /\ clock = TicksPerSec - 1
    /\ stdout = <<>>
    /\ count_bytes = 100

\* C18: in every mode but NON a successful read of n bytes leaves the word,
\* comma and line counters as they were and raises the byte counter by n,
\* the number of bytes read, not the length of the text displayed.
C18_ConversionCountsBytesRead ==
    [][last'.kind \in {"convert", "read"} /\ convertfrom # "NON" =>
         /\ UNCHANGED <<count_words, count_commas, count_lines>>
         /\ count_bytes' = count_bytes + last'.n]_vars

C18_Witness ==
    /\ Converted({"HEX"})
    /\ last.n = 2
    /\ count_bytes = 2
    /\ Len(sink) = 4

\* C19: an iteration whose read fails with an error other than TimedOut
\* leaves the read buffer, the four counters, the window timestamp and the
\* sink as they were and makes no report check: nothing is printed even when
\* a second has passed.
C19_FatalReadErrorChangesNothing ==
    [][last'.kind = "Other" =>
         /\ buf' = buf
         /\ CountersUnchanged
         /\ stamp' = stamp
         /\ sink' = sink
         /\ stdout' = stdout]_vars

C19_Witness ==
    /\ last.kind = "Other"
    /\ last.ret = "ReadErr"
    /\ clock - stamp >= TicksPerSec
    /\ stdout = <<>>

=============================================================================
